---- MODULE Spec2Model ----
(***************************************************************************)
(* Storage layer of the image repository service: the Name Index           *)
(* (ImageNameList), parseImageName, the Filesystem backend                 *)
(* (FileImageStorage), the Engine-Delegated backend (DockerImageStorage)   *)
(* and the Document-Store backend (MongoImageStorage).                     *)
(*                                                                         *)
(* A string is a sequence of one-character strings, so that the code's     *)
(* index arithmetic on strings (strings.Index, slicing, HasPrefix,         *)
(* HasSuffix, path resolution) is computed and not assumed.                *)
(***************************************************************************)
EXTENDS Integers, Sequences, FiniteSets, TLC

VARIABLES
    nameList,   \* ImageNameList.nameList of the backend's index
    nameMap,    \* ImageNameList.nameMap of the backend's index
    dirs,       \* the medium under FileImageStorage.Dir: the directories
    files,      \* the medium under FileImageStorage.Dir: file path -> bytes
    blobs,      \* the GridFS namespace: filename -> bytes
    imgs,       \* the images of the container runtime: a list of RepoTags lists
    input,      \* the argument drawn for a pure function
    steps,      \* number of calls made so far
    prev,       \* the call before the last one
    last,       \* the last call: operation, arguments, returned error, output
    sessions,   \* number of mgo sessions dialled and not yet closed
    nameCap,    \* capacity of the array behind ImageNameList.nameList
    snap,       \* a slice returned earlier by Names(), as its holder sees it
    procs,      \* the goroutines of calls in progress: position and locals
    pipe        \* the io.Pipe between a caller and the runtime call

vars == <<nameList, nameMap, dirs, files, blobs, imgs, input, steps, prev, last,
          sessions, nameCap, snap, procs, pipe>>

\* the state of the slices, goroutines and pipes, untouched by whole calls
inFlight == <<nameCap, snap, procs, pipe>>

----------------------------------------------------------------------------
(* Bounds *)

MaxNames == 4        \* identifiers offered to the bare Name Index
MaxNameLen == 4      \* length of the strings offered to parseImageName

----------------------------------------------------------------------------
(* Strings *)

StringsUpTo(A, n) == UNION {[1..k -> A] : k \in 0..n}

Colon == ":"
Slash == "/"
Latest == <<"l", "a", "t", "e", "s", "t">>

ToSet(s) == {s[i] : i \in DOMAIN s}

NoDuplicates(s) == \A i, j \in DOMAIN s : s[i] = s[j] => i = j

Occurrences(s, x) == Cardinality({i \in DOMAIN s : s[i] = x})

\* the value of a call that has not happened
NoCall == [op |-> "none", arg |-> <<>>, data |-> <<>>, err |-> "nil", out |-> <<>>]

Call(op, arg, data, err, out) ==
    [op |-> op, arg |-> arg, data |-> data, err |-> err, out |-> out]

\* no slice handed out, no call in progress, no pipe created
NoSnap == [taken |-> FALSE]
NoProcs == <<>>
NoPipe == [made |-> FALSE]

----------------------------------------------------------------------------
(* Name Index: ImageNameList *)

NewImageNameList == [nameList |-> <<>>, nameMap |-> [k \in {} |-> k]]

\* Add with the membership test dropped
AddNoCheck(inl, name) ==
    [inl |-> [nameList |-> Append(inl.nameList, name),
              nameMap  |-> [k \in DOMAIN inl.nameMap \cup {name} |->
                               IF k = name THEN name ELSE inl.nameMap[k]]],
     err |-> "nil"]

Add(inl, name) ==
    IF name \in DOMAIN inl.nameMap
    THEN [inl |-> inl, err |-> "exists"]
    ELSE [inl |-> [nameList |-> Append(inl.nameList, name),
                   nameMap  |-> [k \in DOMAIN inl.nameMap \cup {name} |->
                                    IF k = name THEN name ELSE inl.nameMap[k]]],
          err |-> "nil"]

Names(inl) == inl.nameList

\* delete(m, name) of a Go map
MapDelete(m, name) == [k \in DOMAIN m \ {name} |-> m[k]]

\* a deletion that closes the gap by shifting the later elements down
SwapTruncateShift(list, i) ==
    [j \in 1..(Len(list) - 1) |-> IF j < i THEN list[j] ELSE list[j + 1]]

\* the swap of positions i and n-1 (0-based) followed by the reslice [0:n-1]
SwapTruncate(list, i) ==
    LET n == Len(list)
        swapped == [list EXCEPT ![i] = list[n], ![n] = list[i]]
    IN  SubSeq(swapped, 1, n - 1)

\* Remove that leaves the map entry behind
RemoveKeepKey(inl, name) ==
    IF name \in DOMAIN inl.nameMap
    THEN LET hits == {i \in DOMAIN inl.nameList : inl.nameList[i] = name}
         IN  IF hits # {}
             THEN LET i == CHOOSE h \in hits : \A g \in hits : h <= g
                  IN  [inl |-> [nameList |-> SwapTruncate(inl.nameList, i),
                                nameMap  |-> inl.nameMap],
                       err |-> "nil"]
             ELSE [inl |-> inl, err |-> "not found"]
    ELSE [inl |-> inl, err |-> "not found"]

\* Remove that truncates without the swap
RemoveNoSwap(inl, name) ==
    IF name \in DOMAIN inl.nameMap
    THEN [inl |-> [nameList |-> SubSeq(inl.nameList, 1, Len(inl.nameList) - 1),
                   nameMap  |-> MapDelete(inl.nameMap, name)],
          err |-> "nil"]
    ELSE [inl |-> inl, err |-> "not found"]

Remove(inl, name) ==
    IF name \in DOMAIN inl.nameMap
    THEN LET deleted == MapDelete(inl.nameMap, name)
             hits == {i \in DOMAIN inl.nameList : inl.nameList[i] = name}
         IN  IF hits # {}
             THEN LET i == CHOOSE h \in hits : \A g \in hits : h <= g
                  IN  [inl |-> [nameList |-> SwapTruncate(inl.nameList, i),
                                nameMap  |-> deleted],
                       err |-> "nil"]
             ELSE [inl |-> [nameList |-> inl.nameList, nameMap |-> deleted],
                   err |-> "not found"]
    ELSE [inl |-> inl, err |-> "not found"]

\* the index held in the state
Index == [nameList |-> nameList, nameMap |-> nameMap]

----------------------------------------------------------------------------
(* The bare Name Index under Add and Remove calls *)

Digits == <<"1", "2", "3", "4", "5", "6", "7", "8", "9">>

IndexNames == {<<"r", Colon, Digits[i]>> : i \in 1..MaxNames}

Init ==
    /\ nameList = NewImageNameList.nameList
    /\ nameMap = NewImageNameList.nameMap
    /\ dirs = {}
    /\ files = [p \in {} |-> <<>>]
    /\ blobs = [p \in {} |-> <<>>]
    /\ imgs = <<>>
    /\ input = <<>>
    /\ steps = 0
    /\ prev = NoCall
    /\ last = NoCall
    /\ sessions = 0
    /\ nameCap = 0
    /\ snap = NoSnap
    /\ procs = NoProcs
    /\ pipe = NoPipe

IndexAdd ==
    \E name \in IndexNames :
        LET r == Add(Index, name)
        IN  /\ nameList' = r.inl.nameList
            /\ nameMap' = r.inl.nameMap
            /\ prev' = last
            /\ last' = Call("Add", name, <<>>, r.err, <<>>)
            /\ UNCHANGED <<sessions, inFlight, dirs, files, blobs, imgs, input, steps>>

IndexRemove ==
    \E name \in IndexNames :
        LET r == Remove(Index, name)
        IN  /\ nameList' = r.inl.nameList
            /\ nameMap' = r.inl.nameMap
            /\ prev' = last
            /\ last' = Call("Remove", name, <<>>, r.err, <<>>)
            /\ UNCHANGED <<sessions, inFlight, dirs, files, blobs, imgs, input, steps>>

IndexNamesCall ==
    /\ prev' = last
    /\ last' = Call("Names", <<>>, <<>>, "nil", Names(Index))
    /\ UNCHANGED <<sessions, inFlight, nameList, nameMap, dirs, files, blobs, imgs, input, steps>>

Next == IndexAdd \/ IndexRemove \/ IndexNamesCall

Spec == Init /\ [][Next]_vars

----------------------------------------------------------------------------
(* C1: after any sequence of Add and Remove calls on an index that started *)
(* empty, the keys of nameMap and the elements of nameList are the same    *)
(* set of identifiers.                                                     *)
C1_SetEqualsSequence == DOMAIN nameMap = ToSet(nameList)

\* an Add of an identifier follows a successful Remove
C1_Witness ==
    /\ last.op = "Add"
    /\ last.err = "nil"
    /\ prev.op = "Remove"
    /\ prev.err = "nil"
    /\ Len(nameList) >= 2

(* C2: Names() holds each identifier at most once, and an Add of an        *)
(* identifier that is already present returns the duplicate error and      *)
(* leaves the map and the sequence (contents and order) as they were.      *)
C2_Uniqueness ==
    /\ [](NoDuplicates(Names(Index)))
    /\ [][(last'.op = "Add" /\ last'.arg \in DOMAIN nameMap)
            => /\ last'.err = "exists"
               /\ nameList' = nameList
               /\ nameMap' = nameMap]_vars

\* an Add was refused as a duplicate on an index of several identifiers
C2_Witness ==
    /\ last.op = "Add"
    /\ last.err = "exists"
    /\ last.arg \in ToSet(nameList)
    /\ Len(nameList) >= 2

(* C3: a Remove of a present identifier succeeds, the identifier is gone   *)
(* from Names(), the count drops by exactly one and every other identifier *)
(* is still there; a Remove of an absent identifier returns not-found and  *)
(* leaves the index as it was.                                             *)
C3_RemovalTotality ==
    [][last'.op = "Remove"
         => IF last'.arg \in ToSet(nameList)
            THEN /\ last'.err = "nil"
                 /\ last'.arg \notin ToSet(nameList')
                 /\ Len(nameList') = Len(nameList) - 1
                 /\ ToSet(nameList') = ToSet(nameList) \ {last'.arg}
            ELSE /\ last'.err = "not found"
                 /\ nameList' = nameList
                 /\ nameMap' = nameMap]_vars

\* a Remove took an identifier out from among others
C3_Witness ==
    /\ last.op = "Remove"
    /\ last.err = "nil"
    /\ last.arg \notin ToSet(nameList)
    /\ Len(nameList) >= 2

----------------------------------------------------------------------------
(* parseImageName *)

\* strings.Index(s, c) for a one-character c: 0-based, -1 when absent
StringsIndex(s, c) ==
    LET hits == {i \in DOMAIN s : s[i] = c}
    IN  IF hits = {} THEN -1
        ELSE (CHOOSE h \in hits : \A g \in hits : h <= g) - 1

\* strings.LastIndex, which parseImageName does not use
StringsLastIndex(s, c) ==
    LET hits == {i \in DOMAIN s : s[i] = c}
    IN  IF hits = {} THEN -1
        ELSE (CHOOSE h \in hits : \A g \in hits : h >= g) - 1

\* the Go slice expression s[lo:hi] on a string
Slice(s, lo, hi) == SubSeq(s, lo + 1, hi)

\* parseImageName splitting at the last ':' instead of the first
parseImageNameLast(name) ==
    LET pos == StringsLastIndex(name, Colon)
    IN  IF pos = -1
        THEN <<name, Latest>>
        ELSE <<Slice(name, 0, pos), Slice(name, pos + 1, Len(name))>>

parseImageName(name) ==
    LET pos == StringsIndex(name, Colon)
    IN  IF pos = -1
        THEN <<name, Latest>>
        ELSE <<Slice(name, 0, pos), Slice(name, pos + 1, Len(name))>>

ParseAlphabet == {"r", "3", Colon}

ParseInit ==
    /\ input \in StringsUpTo(ParseAlphabet, MaxNameLen)
    /\ nameList = NewImageNameList.nameList
    /\ nameMap = NewImageNameList.nameMap
    /\ dirs = {}
    /\ files = [p \in {} |-> <<>>]
    /\ blobs = [p \in {} |-> <<>>]
    /\ imgs = <<>>
    /\ steps = 0
    /\ prev = NoCall
    /\ last = NoCall
    /\ sessions = 0
    /\ nameCap = 0
    /\ snap = NoSnap
    /\ procs = NoProcs
    /\ pipe = NoPipe

ParseCall ==
    /\ last.op = "none"
    /\ prev' = last
    /\ last' = Call("parseImageName", input, <<>>, "nil", parseImageName(input))
    /\ UNCHANGED <<sessions, inFlight, nameList, nameMap, dirs, files, blobs, imgs, input, steps>>

ParseNext == ParseCall

SpecParse == ParseInit /\ [][ParseNext]_vars

(* C10: parsing splits at the first ':' only: a string without ':' gives   *)
(* (the string, "latest"); otherwise the repository is the text before the *)
(* first ':' and the tag is all the text after it.                         *)
C10_DefaultTag ==
    last.op = "parseImageName"
        => LET s == last.arg
               repo == last.out[1]
               tag == last.out[2]
           IN  IF Colon \notin ToSet(s)
               THEN repo = s /\ tag = Latest
               ELSE /\ Colon \notin ToSet(repo)
                    /\ s = repo \o <<Colon>> \o tag

\* a string with two ':' has been parsed: the tag keeps the second one
C10_Witness ==
    /\ last.op = "parseImageName"
    /\ Occurrences(last.arg, Colon) >= 2
    /\ Colon \in ToSet(last.out[2])

----------------------------------------------------------------------------
(* Engine-Delegated backend: DockerImageStorage.List *)

\* the placeholder token of an untagged image
None == <<"<", "n", "o", "n", "e", ">">>

\* strings.HasPrefix and strings.HasSuffix
HasPrefix(s, p) == Len(s) >= Len(p) /\ SubSeq(s, 1, Len(p)) = p

HasSuffix(s, p) == Len(s) >= Len(p) /\ SubSeq(s, Len(s) - Len(p) + 1, Len(s)) = p

\* the test without its suffix half
DiscardedPrefixOnly(name) == HasPrefix(name, None)

\* the test of the inner loop: the alias is discarded
Discarded(name) == HasPrefix(name, None) \/ HasSuffix(name, <<Colon>> \o None)

\* the inner loop over img.RepoTags, appending to result
RECURSIVE AppendTags(_, _)
AppendTags(result, tags) ==
    IF tags = <<>> THEN result
    ELSE AppendTags(IF Discarded(Head(tags)) THEN result
                    ELSE Append(result, Head(tags)),
                    Tail(tags))

\* the outer loop over imgs
RECURSIVE AppendImages(_, _)
AppendImages(result, images) ==
    IF images = <<>> THEN result
    ELSE AppendImages(AppendTags(result, Head(images)), Tail(images))

\* DockerImageStorage.List: failed is the outcome of client.ListImages
DockerList(images, failed) ==
    IF failed
    THEN [out |-> <<>>, err |-> "runtime error"]
    ELSE [out |-> AppendImages(<<>>, images), err |-> "nil"]

MaxTags == 2         \* aliases held by the runtime, over all images
MaxImages == 2       \* images held by the runtime

\* aliases offered to the runtime: a head followed by a tail
AliasHeads == {<<>>, <<"a">>, None, None \o <<"a">>, <<"a">> \o None}
AliasTails == {<<>>, <<Colon, "b">>, <<Colon>> \o None, <<Colon>> \o None \o <<"b">>}
Aliases == {h \o t : h \in AliasHeads, t \in AliasTails}

RECURSIVE SumSeq(_)
SumSeq(s) == IF s = <<>> THEN 0 ELSE Head(s) + SumSeq(Tail(s))

\* cut the sequence flat into consecutive groups of the given sizes
RECURSIVE Group(_, _)
Group(flat, sizes) ==
    IF sizes = <<>> THEN <<>>
    ELSE <<SubSeq(flat, 1, Head(sizes))>>
         \o Group(SubSeq(flat, Head(sizes) + 1, Len(flat)), Tail(sizes))

RECURSIVE Flatten(_)
Flatten(ss) == IF ss = <<>> THEN <<>> ELSE Head(ss) \o Flatten(Tail(ss))

\* the image lists the runtime may hold
RuntimeImages ==
    {Group(flat, sizes) :
        <<flat, sizes>> \in
            {fs \in StringsUpTo(Aliases, MaxTags) \X StringsUpTo(0..MaxTags, MaxImages) :
                SumSeq(fs[2]) = Len(fs[1])}}

DockerInit ==
    /\ imgs \in RuntimeImages
    /\ nameList = NewImageNameList.nameList
    /\ nameMap = NewImageNameList.nameMap
    /\ dirs = {}
    /\ files = [p \in {} |-> <<>>]
    /\ blobs = [p \in {} |-> <<>>]
    /\ input = <<>>
    /\ steps = 0
    /\ prev = NoCall
    /\ last = NoCall
    /\ sessions = 0
    /\ nameCap = 0
    /\ snap = NoSnap
    /\ procs = NoProcs
    /\ pipe = NoPipe

DockerListCall ==
    \E failed \in BOOLEAN :
        LET r == DockerList(imgs, failed)
        IN  /\ last.op = "none"
            /\ prev' = last
            /\ last' = Call("List", <<>>, <<>>, r.err, r.out)
            /\ UNCHANGED <<sessions, inFlight, nameList, nameMap, dirs, files, blobs, imgs, input, steps>>

DockerNext == DockerListCall

SpecDocker == DockerInit /\ [][DockerNext]_vars

\* an alias the claim keeps: not the placeholder itself, not ending in ":<none>"
KeptIfNotEqual(a) == a # None /\ ~HasSuffix(a, <<Colon>> \o None)

\* an alias the code keeps: not starting with the placeholder, not ending in ":<none>"
KeptIfNotPrefixed(a) == ~HasPrefix(a, None) /\ ~HasSuffix(a, <<Colon>> \o None)

(* C9 as stated: List() returns the images' aliases flattened in order,    *)
(* minus every alias that equals "<none>" or ends with ":<none>"; every    *)
(* other alias is retained.                                                *)
C9_AsStated ==
    (last.op = "List" /\ last.err = "nil")
        => last.out = SelectSeq(Flatten(imgs), KeptIfNotEqual)

(* C9 as amended: List() returns the images' aliases flattened in order,   *)
(* minus every alias that starts with "<none>" or ends with ":<none>";     *)
(* every other alias, also of the same image, is retained.                 *)
C9_UntaggedFiltering ==
    (last.op = "List" /\ last.err = "nil")
        => last.out = SelectSeq(Flatten(imgs), KeptIfNotPrefixed)

\* one image holds an alias that starts with "<none>" without being equal to
\* it or ending in ":<none>", which is dropped, next to a retained alias
C9_Witness ==
    /\ last.op = "List"
    /\ last.err = "nil"
    /\ \E i \in DOMAIN imgs :
          /\ Len(imgs[i]) = 2
          /\ HasPrefix(imgs[i][1], None)
          /\ imgs[i][1] # None
          /\ ~HasSuffix(imgs[i][1], <<Colon>> \o None)
          /\ last.out = <<imgs[i][2]>>

----------------------------------------------------------------------------
(* The medium of the Filesystem backend.                                   *)
(* A path is the sequence of its components below FileImageStorage.Dir;    *)
(* <<>> is Dir itself.  dirs holds the directories, files maps the path    *)
(* of each regular file to its bytes.                                      *)

Medium == [dirs |-> dirs, files |-> files]

EmptyRoot == [dirs |-> {<<>>}, files |-> [p \in {} |-> <<>>]]

\* the components of a path string: split at '/', empty components dropped
RECURSIVE SplitAcc(_, _, _)
SplitAcc(s, cur, acc) ==
    IF s = <<>>
    THEN IF cur = <<>> THEN acc ELSE Append(acc, cur)
    ELSE IF Head(s) = Slash
         THEN SplitAcc(Tail(s), <<>>, IF cur = <<>> THEN acc ELSE Append(acc, cur))
         ELSE SplitAcc(Tail(s), Append(cur, Head(s)), acc)

SplitPath(s) == SplitAcc(s, <<>>, <<>>)

\* the path string names a directory: it ends in '/'
TrailingSlash(s) == s # <<>> /\ s[Len(s)] = Slash

Prefixes(p) == {SubSeq(p, 1, k) : k \in 0..Len(p)}

ProperPrefixes(p) == Prefixes(p) \ {p}

Parent(p) == SubSeq(p, 1, Len(p) - 1)

\* what the path resolves to
Kind(m, p) ==
    IF \E q \in ProperPrefixes(p) : q \in DOMAIN m.files THEN "notdir"
    ELSE IF p \in DOMAIN m.files THEN "file"
    ELSE IF p \in m.dirs THEN "dir"
    ELSE "absent"

\* fmt.Sprintf("%s/%s", fis.Dir, image_name), below Dir
DirString(image_name) == image_name

\* fmt.Sprintf("%s/%s", abs_dir, image_version), below Dir
FileString(image_name, image_version) == image_name \o <<Slash>> \o image_version

\* fmt.Sprintf("%s:%s", image_name, image_version)
IndexString(image_name, image_version) == image_name \o <<Colon>> \o image_version

\* os.MkdirAll: every missing directory of the path is created; it fails,
\* creating nothing, when a component of the path is a regular file; an I/O
\* failure is taken before the first directory is made
MkdirAll(m, s, fault) ==
    LET p == SplitPath(s)
    IN  IF fault THEN [m |-> m, err |-> "io failure"]
        ELSE IF \E q \in Prefixes(p) : q \in DOMAIN m.files
        THEN [m |-> m, err |-> "not a directory"]
        ELSE [m |-> [m EXCEPT !.dirs = @ \cup Prefixes(p)], err |-> "nil"]

\* os.Create that appends to an existing file instead of truncating it
OsCreateKeep(m, s, fault) ==
    LET p == SplitPath(s)
    IN  IF fault THEN [m |-> m, path |-> p, err |-> "io failure"]
        ELSE IF Kind(m, p) = "notdir" THEN [m |-> m, path |-> p, err |-> "not a directory"]
        ELSE IF Kind(m, p) = "dir" THEN [m |-> m, path |-> p, err |-> "is a directory"]
        ELSE IF Kind(m, p) = "file"
        THEN IF TrailingSlash(s)
             THEN [m |-> m, path |-> p, err |-> "not a directory"]
             ELSE [m |-> m, path |-> p, err |-> "nil"]
        ELSE IF Parent(p) \notin m.dirs THEN [m |-> m, path |-> p, err |-> "not found"]
        ELSE IF TrailingSlash(s) THEN [m |-> m, path |-> p, err |-> "is a directory"]
        ELSE [m |-> [m EXCEPT !.files =
                        [q \in DOMAIN m.files \cup {p} |->
                            IF q = p THEN <<>> ELSE m.files[q]]],
              path |-> p, err |-> "nil"]

\* os.Create: open for writing, created if missing, truncated if present
OsCreate(m, s, fault) ==
    LET p == SplitPath(s)
    IN  IF fault THEN [m |-> m, path |-> p, err |-> "io failure"]
        ELSE IF Kind(m, p) = "notdir" THEN [m |-> m, path |-> p, err |-> "not a directory"]
        ELSE IF Kind(m, p) = "dir" THEN [m |-> m, path |-> p, err |-> "is a directory"]
        ELSE IF Kind(m, p) = "file"
        THEN IF TrailingSlash(s)
             THEN [m |-> m, path |-> p, err |-> "not a directory"]
             ELSE [m |-> [m EXCEPT !.files[p] = <<>>], path |-> p, err |-> "nil"]
        ELSE IF Parent(p) \notin m.dirs THEN [m |-> m, path |-> p, err |-> "not found"]
        ELSE IF TrailingSlash(s) THEN [m |-> m, path |-> p, err |-> "is a directory"]
        ELSE [m |-> [m EXCEPT !.files =
                        [q \in DOMAIN m.files \cup {p} |->
                            IF q = p THEN <<>> ELSE m.files[q]]],
              path |-> p, err |-> "nil"]

\* io.Copy(f, reader): the bytes are written at the file's offset, which
\* starts at the end of what os.Create left; with failAt = -1 the whole
\* payload is written, otherwise the copy fails after failAt bytes
CopyIn(m, p, payload, failAt) ==
    IF failAt = -1
    THEN [m |-> [m EXCEPT !.files[p] = @ \o payload], err |-> "nil"]
    ELSE [m |-> [m EXCEPT !.files[p] = @ \o SubSeq(payload, 1, failAt)],
          err |-> "io failure"]

\* os.Open followed by io.Copy(writer, r): the bytes delivered to the writer
OsOpenCopyOut(m, s, failAt) ==
    LET p == SplitPath(s)
    IN  IF Kind(m, p) = "notdir" THEN [out |-> <<>>, err |-> "not a directory"]
        ELSE IF Kind(m, p) = "absent" THEN [out |-> <<>>, err |-> "not found"]
        ELSE IF Kind(m, p) = "dir" THEN [out |-> <<>>, err |-> "is a directory"]
        ELSE IF TrailingSlash(s) THEN [out |-> <<>>, err |-> "not a directory"]
        ELSE IF failAt = -1 THEN [out |-> m.files[p], err |-> "nil"]
        ELSE [out |-> SubSeq(m.files[p], 1, failAt), err |-> "io failure"]

\* a directory with nothing in it
IsEmptyDir(m, p) ==
    /\ p \in m.dirs
    /\ \A q \in m.dirs \cup DOMAIN m.files : q # <<>> => Parent(q) # p

\* os.Remove: unlink of a file, rmdir of an empty directory
OsRemove(m, s, fault) ==
    LET p == SplitPath(s)
    IN  IF fault THEN [m |-> m, err |-> "io failure"]
        ELSE IF Kind(m, p) = "notdir" THEN [m |-> m, err |-> "not a directory"]
        ELSE IF Kind(m, p) = "absent" THEN [m |-> m, err |-> "not found"]
        ELSE IF Kind(m, p) = "file"
        THEN IF TrailingSlash(s)
             THEN [m |-> m, err |-> "not a directory"]
             ELSE [m |-> [m EXCEPT !.files = [q \in DOMAIN m.files \ {p} |-> m.files[q]]],
                   err |-> "nil"]
        ELSE IF IsEmptyDir(m, p)
        THEN [m |-> [m EXCEPT !.dirs = @ \ {p}], err |-> "nil"]
        ELSE [m |-> m, err |-> "not empty"]

----------------------------------------------------------------------------
(* Filesystem backend: FileImageStorage *)

\* the outcome the medium gives a call: no failure, or an I/O failure in
\* directory creation, in file creation or removal, or after `at` bytes of
\* the copy
NoFault == [stage |-> "none", at |-> -1]

WriteFaults(payload) ==
    {NoFault, [stage |-> "mkdir", at |-> -1], [stage |-> "create", at |-> -1]}
        \cup {[stage |-> "copy", at |-> k] : k \in 0..Len(payload)}

DeleteFaults == {NoFault, [stage |-> "remove", at |-> -1]}

\* the scan without the !vf.IsDir() test: directories at depth two count too
ScanEntriesAnyKind(m) ==
    {p \in DOMAIN m.files \cup m.dirs : Len(p) = 2}

\* the depth-two regular files: <<directory, file>>, the directory entry
\* being a directory and the entry in it not being one
ScanEntries(m) == {p \in DOMAIN m.files : Len(p) = 2}

\* the orders in which the two nested ReadDir loops may visit the entries:
\* any order of the directories, any order of the files within each
ScanOrders(entries) ==
    {o \in [1..Cardinality(entries) -> entries] :
        /\ ToSet(o) = entries
        /\ \A i, j, k \in DOMAIN o :
              (i < j /\ j < k /\ o[i][1] = o[k][1]) => o[j][1] = o[i][1]}

\* the loops of loadImageNames over the entries in the order visited
RECURSIVE loadImageNames(_, _)
loadImageNames(inl, order) ==
    IF order = <<>> THEN inl
    ELSE loadImageNames(Add(inl, IndexString(Head(order)[1], Head(order)[2])).inl,
                        Tail(order))

\* NewFileImageStorage: ReadDir of a missing Dir fails and the index stays empty
NewFileImageStorage(m, order) ==
    IF <<>> \notin m.dirs
    THEN NewImageNameList
    ELSE loadImageNames(NewImageNameList, order)

\* Write that registers the identifier whatever the copy returned
FisWriteAddAlways(m, inl, name, payload, fault) ==
    LET image_name == parseImageName(name)[1]
        image_version == parseImageName(name)[2]
        mk == MkdirAll(m, DirString(image_name), fault.stage = "mkdir")
        cr == OsCreate(mk.m, FileString(image_name, image_version), fault.stage = "create")
        cp == CopyIn(cr.m, cr.path, payload, IF fault.stage = "copy" THEN fault.at ELSE -1)
    IN  IF mk.err # "nil" THEN [m |-> mk.m, inl |-> inl, err |-> mk.err]
        ELSE IF cr.err # "nil" THEN [m |-> cr.m, inl |-> inl, err |-> cr.err]
        ELSE [m |-> cp.m,
              inl |-> Add(inl, IndexString(image_name, image_version)).inl,
              err |-> cp.err]

\* Write that registers the identifier as the caller spelled it
FisWriteRawName(m, inl, name, payload, fault) ==
    LET image_name == parseImageName(name)[1]
        image_version == parseImageName(name)[2]
        mk == MkdirAll(m, DirString(image_name), fault.stage = "mkdir")
        cr == OsCreate(mk.m, FileString(image_name, image_version), fault.stage = "create")
        cp == CopyIn(cr.m, cr.path, payload, IF fault.stage = "copy" THEN fault.at ELSE -1)
    IN  IF mk.err # "nil" THEN [m |-> mk.m, inl |-> inl, err |-> mk.err]
        ELSE IF cr.err # "nil" THEN [m |-> cr.m, inl |-> inl, err |-> cr.err]
        ELSE [m |-> cp.m,
              inl |-> IF cp.err = "nil" THEN Add(inl, name).inl ELSE inl,
              err |-> cp.err]

\* FileImageStorage.Write
FisWrite(m, inl, name, payload, fault) ==
    LET image_name == parseImageName(name)[1]
        image_version == parseImageName(name)[2]
        mk == MkdirAll(m, DirString(image_name), fault.stage = "mkdir")
        cr == OsCreate(mk.m, FileString(image_name, image_version), fault.stage = "create")
        cp == CopyIn(cr.m, cr.path, payload, IF fault.stage = "copy" THEN fault.at ELSE -1)
    IN  IF mk.err # "nil" THEN [m |-> mk.m, inl |-> inl, err |-> mk.err]
        ELSE IF cr.err # "nil" THEN [m |-> cr.m, inl |-> inl, err |-> cr.err]
        ELSE [m |-> cp.m,
              inl |-> IF cp.err = "nil"
                      THEN Add(inl, IndexString(image_name, image_version)).inl
                      ELSE inl,
              err |-> cp.err]

\* FileImageStorage.Get
FisGet(m, name, failAt) ==
    LET image_name == parseImageName(name)[1]
        image_version == parseImageName(name)[2]
    IN  OsOpenCopyOut(m, FileString(image_name, image_version), failAt)

\* FileImageStorage.List
FisList(inl) == [out |-> Names(inl), err |-> "nil"]

\* Delete that leaves the identifier in the index
FisDeleteKeepName(m, inl, name, fault) ==
    LET image_name == parseImageName(name)[1]
        image_version == parseImageName(name)[2]
        rm == OsRemove(m, FileString(image_name, image_version), fault.stage = "remove")
    IN  [m |-> rm.m, inl |-> inl, err |-> rm.err]

\* FileImageStorage.Delete
FisDelete(m, inl, name, fault) ==
    LET image_name == parseImageName(name)[1]
        image_version == parseImageName(name)[2]
        rm == OsRemove(m, FileString(image_name, image_version), fault.stage = "remove")
    IN  [m |-> rm.m,
         inl |-> IF rm.err = "nil"
                 THEN Remove(inl, IndexString(image_name, image_version)).inl
                 ELSE inl,
         err |-> rm.err]

MaxSteps == 2        \* calls made on one backend

\* payloads offered to a Write: empty, one byte, two different bytes
Payloads == {<<>>, <<1>>, <<2, 1>>}

\* identifiers offered to the Filesystem backend: without a tag, regular,
\* with an empty tag, with an empty repository, with a '/' in the
\* repository, and with the default tag spelled out
FileIds ==
    {<<"a">>,
     <<"a", Colon, "a">>,
     <<"a", Colon>>,
     <<Colon, "a">>,
     <<"a", Slash, "a", Colon, "a">>,
     <<"a", Colon>> \o Latest}

\* the failures offered to a Write: the payload is not read before the copy
WriteInputs ==
    UNION {{<<payload, fault>> : fault \in
               {f \in WriteFaults(payload) :
                   f.stage \in {"none", "copy"} \/ payload = <<>>}} :
           payload \in Payloads}

FileInit ==
    /\ dirs = EmptyRoot.dirs
    /\ files = EmptyRoot.files
    /\ nameList = NewFileImageStorage(EmptyRoot, <<>>).nameList
    /\ nameMap = NewFileImageStorage(EmptyRoot, <<>>).nameMap
    /\ blobs = [p \in {} |-> <<>>]
    /\ imgs = <<>>
    /\ input = <<>>
    /\ steps = 0
    /\ prev = NoCall
    /\ last = NoCall
    /\ sessions = 0
    /\ nameCap = 0
    /\ snap = NoSnap
    /\ procs = NoProcs
    /\ pipe = NoPipe

FileWrite ==
    /\ steps < MaxSteps
    /\ \E name \in FileIds, pf \in WriteInputs :
          LET r == FisWrite(Medium, Index, name, pf[1], pf[2])
          IN  /\ dirs' = r.m.dirs
              /\ files' = r.m.files
              /\ nameList' = r.inl.nameList
              /\ nameMap' = r.inl.nameMap
              /\ steps' = steps + 1
              /\ prev' = last
              /\ last' = Call("Write", name, pf[1], r.err, <<>>)
              /\ UNCHANGED <<sessions, inFlight, blobs, imgs, input>>

FileGet ==
    /\ steps < MaxSteps
    /\ \E name \in FileIds :
          \E failAt \in -1..Len(FisGet(Medium, name, -1).out) :
              LET r == FisGet(Medium, name, failAt)
              IN  /\ steps' = steps + 1
                  /\ prev' = last
                  /\ last' = Call("Get", name, <<>>, r.err, r.out)
                  /\ UNCHANGED <<sessions, inFlight, dirs, files, nameList, nameMap, blobs, imgs, input>>

FileList ==
    /\ steps < MaxSteps
    /\ LET r == FisList(Index)
       IN  /\ steps' = steps + 1
           /\ prev' = last
           /\ last' = Call("List", <<>>, <<>>, r.err, r.out)
           /\ UNCHANGED <<sessions, inFlight, dirs, files, nameList, nameMap, blobs, imgs, input>>

FileDelete ==
    /\ steps < MaxSteps
    /\ \E name \in FileIds, fault \in DeleteFaults :
          LET r == FisDelete(Medium, Index, name, fault)
          IN  /\ dirs' = r.m.dirs
              /\ files' = r.m.files
              /\ nameList' = r.inl.nameList
              /\ nameMap' = r.inl.nameMap
              /\ steps' = steps + 1
              /\ prev' = last
              /\ last' = Call("Delete", name, <<>>, r.err, <<>>)
              /\ UNCHANGED <<sessions, inFlight, blobs, imgs, input>>

FileNext == FileWrite \/ FileGet \/ FileList \/ FileDelete

SpecFile == FileInit /\ [][FileNext]_vars

----------------------------------------------------------------------------
(* Claims on the Filesystem backend, from an empty root *)

\* the identifier with its tag made explicit, as Write and Delete register it
Canonical(name) == IndexString(parseImageName(name)[1], parseImageName(name)[2])

\* what List() and Get(name) return in the current state
ListNow == FisList(Index)
GetNow(name) == FisGet(Medium, name, -1)

(* C5 as stated: on a backend constructed over an empty root, after a      *)
(* successful Write(id, P) List() returns exactly [id] and Get(id) returns *)
(* P; after a subsequent successful Delete(id), List() returns the empty   *)
(* sequence and Get(id) fails with a not-found error.                      *)
C5_AsStated ==
    /\ (steps = 1 /\ last.op = "Write" /\ last.err = "nil")
          => /\ ListNow = [out |-> <<last.arg>>, err |-> "nil"]
             /\ GetNow(last.arg) = [out |-> last.data, err |-> "nil"]
    /\ (steps = 2 /\ prev.op = "Write" /\ prev.err = "nil"
                  /\ last.op = "Delete" /\ last.arg = prev.arg /\ last.err = "nil")
          => /\ ListNow = [out |-> <<>>, err |-> "nil"]
             /\ GetNow(last.arg) = [out |-> <<>>, err |-> "not found"]

(* C5 as amended: on a backend constructed over an empty root, after a     *)
(* successful Write(id, P) List() returns exactly [repository:tag], the    *)
(* identifier with its tag made explicit ("latest" when id names none),    *)
(* and Get(id) returns P; after a subsequent successful Delete(id), List() *)
(* returns the empty sequence and Get(id) fails with a not-found error.    *)
C5_Lifecycle ==
    /\ (steps = 1 /\ last.op = "Write" /\ last.err = "nil")
          => /\ ListNow = [out |-> <<Canonical(last.arg)>>, err |-> "nil"]
             /\ GetNow(last.arg) = [out |-> last.data, err |-> "nil"]
    /\ (steps = 2 /\ prev.op = "Write" /\ prev.err = "nil"
                  /\ last.op = "Delete" /\ last.arg = prev.arg /\ last.err = "nil")
          => /\ ListNow = [out |-> <<>>, err |-> "nil"]
             /\ GetNow(last.arg) = [out |-> <<>>, err |-> "not found"]

\* a payload was written and the identifier then deleted
C5_Witness ==
    /\ steps = 2
    /\ prev.op = "Write" /\ prev.err = "nil" /\ prev.data = <<2, 1>>
    /\ last.op = "Delete" /\ last.err = "nil" /\ last.arg = prev.arg
    /\ files = EmptyRoot.files

C8_FailureLeavesIndex ==
    [][/\ (last'.op \in {"Write", "Delete"} /\ last'.err # "nil")
             => (nameList' = nameList /\ nameMap' = nameMap)
       /\ (nameList' # nameList \/ nameMap' # nameMap)
             => (last'.op \in {"Write", "Delete"} /\ last'.err = "nil")]_vars

\* a Write failed in the copy: the file is there, the identifier is not
C8_Witness ==
    /\ last.op = "Write"
    /\ last.err = "io failure"
    /\ GetNow(last.arg).err = "nil"
    /\ Canonical(last.arg) \notin ToSet(nameList)

----------------------------------------------------------------------------
(* Construction of a Filesystem backend over a root that holds files *)

MaxInitFiles == 2    \* files in the root before the backend is constructed

\* names of the directory entries in the root; one holds a ':'
ScanNames == {<<"a">>, <<"b">>, <<"a", Colon, "a">>}

\* the files that may be there: at depth one, two and three
ScanPaths == StringsUpTo(ScanNames, 3) \ {<<>>}

\* the medium holding the given files, each under its directories
MediumOf(paths) ==
    [dirs  |-> UNION {ProperPrefixes(p) : p \in paths} \cup {<<>>},
     files |-> [p \in paths |-> <<1>>]]

MissingRoot == [dirs |-> {}, files |-> [p \in {} |-> <<>>]]

ScanMedia ==
    {MediumOf(ToSet(s)) :
        s \in {t \in StringsUpTo(ScanPaths, MaxInitFiles) :
                  \A i, j \in DOMAIN t : t[i] \notin ProperPrefixes(t[j])}}
        \cup {MissingRoot}

ScanInit ==
    /\ \E m \in ScanMedia : dirs = m.dirs /\ files = m.files
    /\ nameList = NewImageNameList.nameList
    /\ nameMap = NewImageNameList.nameMap
    /\ blobs = [p \in {} |-> <<>>]
    /\ imgs = <<>>
    /\ input = <<>>
    /\ steps = 0
    /\ prev = NoCall
    /\ last = NoCall
    /\ sessions = 0
    /\ nameCap = 0
    /\ snap = NoSnap
    /\ procs = NoProcs
    /\ pipe = NoPipe

ScanConstruct ==
    /\ last.op = "none"
    /\ \E order \in ScanOrders(ScanEntries(Medium)) :
          LET inl == NewFileImageStorage(Medium, order)
          IN  /\ nameList' = inl.nameList
              /\ nameMap' = inl.nameMap
              /\ steps' = steps + 1
              /\ prev' = last
              /\ last' = Call("NewFileImageStorage", order, <<>>, "nil", <<>>)
              /\ UNCHANGED <<sessions, inFlight, dirs, files, blobs, imgs, input>>

ScanList ==
    /\ last.op = "NewFileImageStorage"
    /\ LET r == FisList(Index)
       IN  /\ steps' = steps + 1
           /\ prev' = last
           /\ last' = Call("List", <<>>, <<>>, r.err, r.out)
           /\ UNCHANGED <<sessions, inFlight, dirs, files, nameList, nameMap, blobs, imgs, input>>

ScanNext == ScanConstruct \/ ScanList

SpecScan == ScanInit /\ [][ScanNext]_vars

(* C6: a Filesystem backend constructed over a root that holds files at    *)
(* depth two (repository directory / tag file) has a List() whose set of   *)
(* identifiers is exactly { repository:tag for each such file }, with no   *)
(* identifier twice, whatever the order the entries are enumerated in.     *)
C6_StartupScan ==
    (last.op = "List" /\ prev.op = "NewFileImageStorage")
        => /\ ToSet(last.out) =
                 {p[1] \o <<Colon>> \o p[2] : p \in {q \in DOMAIN files : Len(q) = 2}}
           /\ NoDuplicates(last.out)

\* two tag files in two repositories, listed in the order opposite to the
\* one a sorted enumeration gives
C6_Witness ==
    /\ last.op = "List"
    /\ prev.op = "NewFileImageStorage"
    /\ DOMAIN files = {<<<<"a">>, <<"a">>>>, <<<<"b">>, <<"b">>>>}
    /\ last.out = <<<<"b", Colon, "b">>, <<"a", Colon, "a">>>>

----------------------------------------------------------------------------
(* Document-Store backend: MongoImageStorage.                              *)
(* The GridFS namespace is a map from filename to bytes.  fs.Open opens an *)
(* existing file for reading and fails with not-found when there is none;  *)
(* a GridFile opened for reading panics on Write.                          *)

\* createGridFS: mgo.Dial may fail
createGridFS(dialFails) == IF dialFails THEN "connection failure" ELSE "nil"

\* fs.Open(name)
GridFSOpen(store, name) == IF name \in DOMAIN store THEN "nil" ELSE "not found"

\* MongoImageStorage.loadImageNames: the iterator yields the files in some order
RECURSIVE MongoLoadNames(_, _)
MongoLoadNames(inl, order) ==
    IF order = <<>> THEN inl
    ELSE MongoLoadNames(Add(inl, Head(order)).inl, Tail(order))

\* Session.Close releases the session; closing a closed session does nothing
SessionClose(session) == "closed"

\* the sessions a call leaves open behind it
LeftOpen(session) == IF session = "open" THEN 1 ELSE 0

\* loadImageNames: the session is closed by a defer registered right after
\* the dial
loadImageNamesSession(dialFails) ==
    IF createGridFS(dialFails) # "nil" THEN "none" ELSE SessionClose("open")

\* NewMongoImageStorage
NewMongoImageStorage(order, dialFails) ==
    IF createGridFS(dialFails) # "nil"
    THEN NewImageNameList
    ELSE MongoLoadNames(NewImageNameList, order)

\* MongoImageStorage.Write: io.Copy(file, reader) calls file.Write only when
\* the reader delivers bytes
\* the reader delivers bytes; session.Close is deferred before fs.Open and
\* once more after it, and deferred calls run on a panic too
MongoWrite(store, inl, name, payload, dialFails) ==
    IF createGridFS(dialFails) # "nil"
    THEN [store |-> store, inl |-> inl, err |-> createGridFS(dialFails),
          session |-> "none"]
    ELSE IF GridFSOpen(store, name) # "nil"
    THEN [store |-> store, inl |-> inl, err |-> GridFSOpen(store, name),
          session |-> SessionClose("open")]
    ELSE IF payload # <<>>
    THEN [store |-> store, inl |-> inl, err |-> "panic",
          session |-> SessionClose(SessionClose("open"))]
    ELSE [store |-> store, inl |-> Add(inl, name).inl, err |-> "nil",
          session |-> SessionClose(SessionClose("open"))]

\* MongoImageStorage.Get: session.Close is deferred only after fs.Open has
\* succeeded, so the return on an fs.Open error comes before any defer
MongoGet(store, name, dialFails, failAt) ==
    IF createGridFS(dialFails) # "nil"
    THEN [out |-> <<>>, err |-> createGridFS(dialFails), session |-> "none"]
    ELSE IF GridFSOpen(store, name) # "nil"
    THEN [out |-> <<>>, err |-> GridFSOpen(store, name), session |-> "open"]
    ELSE IF failAt = -1
    THEN [out |-> store[name], err |-> "nil", session |-> SessionClose("open")]
    ELSE [out |-> SubSeq(store[name], 1, failAt), err |-> "io failure",
          session |-> SessionClose("open")]

\* MongoImageStorage.List
MongoList(inl) == [out |-> Names(inl), err |-> "nil"]

\* MongoImageStorage.Remove: fs.Remove deletes every file of that name and
\* returns nil when there is none
\* the session is closed by a defer registered right after the dial
MongoRemove(store, inl, name, dialFails, removeFails) ==
    IF createGridFS(dialFails) # "nil"
    THEN [store |-> store, inl |-> inl, err |-> createGridFS(dialFails),
          session |-> "none"]
    ELSE IF removeFails
    THEN [store |-> store, inl |-> inl, err |-> "io failure",
          session |-> SessionClose("open")]
    ELSE [store |-> [n \in DOMAIN store \ {name} |-> store[n]],
          inl |-> Remove(inl, name).inl,
          err |-> "nil",
          session |-> SessionClose("open")]

\* identifiers offered to the Document-Store backend
MongoIds == {<<"a", Colon, "a">>, <<"b", Colon, "a">>}

\* the namespaces the store may hold when the backend is constructed
MongoStores == UNION {[s -> Payloads] : s \in SUBSET MongoIds}

\* the orders in which the iterator may yield the filenames
IterOrders(store) ==
    {o \in [1..Cardinality(DOMAIN store) -> DOMAIN store] : ToSet(o) = DOMAIN store}

MongoInit ==
    /\ blobs \in MongoStores
    /\ \E order \in IterOrders(blobs), dialFails \in BOOLEAN :
          /\ nameList = NewMongoImageStorage(order, dialFails).nameList
          /\ nameMap = NewMongoImageStorage(order, dialFails).nameMap
          /\ sessions = LeftOpen(loadImageNamesSession(dialFails))
    /\ dirs = {}
    /\ files = [p \in {} |-> <<>>]
    /\ imgs = <<>>
    /\ input = <<>>
    /\ steps = 0
    /\ prev = NoCall
    /\ last = NoCall
    /\ nameCap = 0
    /\ snap = NoSnap
    /\ procs = NoProcs
    /\ pipe = NoPipe

MongoWriteCall ==
    /\ steps < MaxSteps
    /\ \E name \in MongoIds, payload \in Payloads, dialFails \in BOOLEAN :
          LET r == MongoWrite(blobs, Index, name, payload, dialFails)
          IN  /\ blobs' = r.store
              /\ nameList' = r.inl.nameList
              /\ nameMap' = r.inl.nameMap
              /\ steps' = steps + 1
              /\ prev' = last
              /\ last' = Call("Write", name, payload, r.err, <<>>)
              /\ sessions' = sessions + LeftOpen(r.session)
              /\ UNCHANGED <<inFlight, dirs, files, imgs, input>>

MongoGetCall ==
    /\ steps < MaxSteps
    /\ \E name \in MongoIds, dialFails \in BOOLEAN :
          \E failAt \in -1..Len(MongoGet(blobs, name, FALSE, -1).out) :
              LET r == MongoGet(blobs, name, dialFails, failAt)
              IN  /\ steps' = steps + 1
                  /\ prev' = last
                  /\ last' = Call("Get", name, <<>>, r.err, r.out)
                  /\ sessions' = sessions + LeftOpen(r.session)
                  /\ UNCHANGED <<inFlight, nameList, nameMap, dirs, files, blobs, imgs, input>>

MongoListCall ==
    /\ steps < MaxSteps
    /\ LET r == MongoList(Index)
       IN  /\ steps' = steps + 1
           /\ prev' = last
           /\ last' = Call("List", <<>>, <<>>, r.err, r.out)
           /\ UNCHANGED <<sessions, inFlight, nameList, nameMap, dirs, files, blobs, imgs, input>>

MongoRemoveCall ==
    /\ steps < MaxSteps
    /\ \E name \in MongoIds, dialFails \in BOOLEAN, removeFails \in BOOLEAN :
          LET r == MongoRemove(blobs, Index, name, dialFails, removeFails)
          IN  /\ blobs' = r.store
              /\ nameList' = r.inl.nameList
              /\ nameMap' = r.inl.nameMap
              /\ steps' = steps + 1
              /\ prev' = last
              /\ last' = Call("Remove", name, <<>>, r.err, <<>>)
              /\ sessions' = sessions + LeftOpen(r.session)
              /\ UNCHANGED <<inFlight, dirs, files, imgs, input>>

MongoNext == MongoWriteCall \/ MongoGetCall \/ MongoListCall \/ MongoRemoveCall

SpecMongo == MongoInit /\ [][MongoNext]_vars

\* errors that are the medium's own failure: the connection, the transfer
MediumFailures == {"connection failure", "io failure"}

(* C4: for every payload P and identifier repo:tag, on the Filesystem and  *)
(* on the Document-Store backend, a Write("repo:tag", P) followed by       *)
(* Get("repo:tag") succeeds and delivers exactly P to the sink, also when  *)
(* no entry of that name existed before the Write (the medium itself not   *)
(* failing during either call).                                            *)
C4_RoundTrip ==
    (/\ prev.op = "Write" /\ prev.err \notin MediumFailures
     /\ last.op = "Get" /\ last.err \notin MediumFailures
     /\ last.arg = prev.arg)
        => /\ prev.err = "nil"
           /\ last.err = "nil"
           /\ last.out = prev.data

(* C11: every Document-Store operation (Write, Get, Remove, the index load *)
(* at construction), on every exit path, success or failure, the failure   *)
(* to open the named file included, has closed the session it dialled by   *)
(* the time it returns: the number of open sessions is what it was before  *)
(* the call.                                                               *)
C11_SessionRelease == [][sessions' = sessions]_vars

----------------------------------------------------------------------------
(* Engine-Delegated backend: the direct form (every operation returns the  *)
(* client's result) and the pipe-streaming form, where Write and Get hand  *)
(* one end of an io.Pipe to the caller and run the runtime call in a       *)
(* goroutine on the other end.                                             *)

MaxChunks == 2       \* chunks of a streamed body or image

\* the chunk sequences a request body or an exported image may consist of
Streams == StringsUpTo({1, 2}, MaxChunks)

\* the direct form: return dis.client.LoadImage / ExportImages / RemoveImage
DockerDirect(runtimeErr) == runtimeErr

\* the error the streaming Write and Get return with the pipe end
DockerStream(runtimeErr) == "nil"

\* the two ends of the pipe: the side that writes and the side that reads
Writer == IF pipe.form = "Write" THEN "caller" ELSE "runtime"
Reader == IF pipe.form = "Write" THEN "runtime" ELSE "caller"

NewPipe(form) == [made |-> TRUE, form |-> form, wClosed |-> FALSE, rClosed |-> FALSE]

\* a goroutine: where it stands, the chunks it still writes or has read,
\* the error its copy or runtime call ends with
Proc(pc, data) == [pc |-> pc, data |-> data, err |-> "nil"]

\* io.Copy on the writing end: an empty source ends the copy at once
CopyFrom(data) == Proc(IF data = <<>> THEN "close" ELSE "write", data)

Pc(p) == IF pipe.made THEN procs[p].pc ELSE "idle"

StreamInit ==
    /\ nameList = NewImageNameList.nameList
    /\ nameMap = NewImageNameList.nameMap
    /\ dirs = {}
    /\ files = [p \in {} |-> <<>>]
    /\ blobs = [p \in {} |-> <<>>]
    /\ imgs = <<>>
    /\ input = "nil"
    /\ steps = 0
    /\ prev = NoCall
    /\ last = NoCall
    /\ sessions = 0
    /\ nameCap = 0
    /\ snap = NoSnap
    /\ procs = NoProcs
    /\ pipe = NoPipe

\* DockerImageStorage.Write, Get, Delete of the direct form
DockerDirectCall ==
    /\ ~pipe.made
    /\ \E op \in {"Write", "Get", "Delete"}, runtimeErr \in {"nil", "runtime error"} :
          /\ input' = runtimeErr
          /\ prev' = last
          /\ last' = Call(op, <<>>, <<>>, DockerDirect(runtimeErr), <<>>)
    /\ UNCHANGED <<nameList, nameMap, dirs, files, blobs, imgs, steps, sessions,
                   inFlight>>

\* the save handler: Write creates the pipe, starts LoadImage on the read
\* end and returns the write end; the handler copies the request body to it
StreamWrite ==
    /\ ~pipe.made
    /\ \E body \in Streams :
          /\ pipe' = NewPipe("Write")
          /\ procs' = [caller |-> CopyFrom(body), runtime |-> Proc("read", <<>>)]
          /\ prev' = last
          /\ last' = Call("StreamWrite", <<>>, body, DockerStream("nil"), <<>>)
    /\ UNCHANGED <<nameList, nameMap, dirs, files, blobs, imgs, input, steps,
                   sessions, nameCap, snap>>

\* the get handler: Get creates the pipe, starts ExportImages on the write
\* end and returns the read end; the handler copies it to the response
StreamGet ==
    /\ ~pipe.made
    /\ \E image \in Streams :
          /\ pipe' = NewPipe("Get")
          /\ procs' = [caller |-> Proc("read", <<>>), runtime |-> CopyFrom(image)]
          /\ prev' = last
          /\ last' = Call("StreamGet", <<>>, image, DockerStream("nil"), <<>>)
    /\ UNCHANGED <<nameList, nameMap, dirs, files, blobs, imgs, input, steps,
                   sessions, nameCap, snap>>

streamFrame == <<nameList, nameMap, dirs, files, blobs, imgs, input, steps,
                 sessions, nameCap, snap, prev, last>>

\* a Write on one end meets a Read on the other: one chunk changes hands
PipeTransfer ==
    /\ pipe.made
    /\ procs[Writer].pc = "write"
    /\ procs[Reader].pc = "read"
    /\ ~pipe.wClosed /\ ~pipe.rClosed
    /\ procs' = [procs EXCEPT
                    ![Writer] = CopyFrom(Tail(procs[Writer].data)),
                    ![Reader].data = Append(@, Head(procs[Writer].data))]
    /\ UNCHANGED <<pipe, streamFrame>>

\* a Read after the write end was closed returns EOF: LoadImage returns
\* nil, the get handler's io.Copy returns nil and r.Close() is next
PipeReadEOF ==
    /\ pipe.made
    /\ procs[Reader].pc = "read"
    /\ pipe.wClosed
    /\ procs' = [procs EXCEPT
                    ![Reader].pc = IF pipe.form = "Write" THEN "done" ELSE "close"]
    /\ UNCHANGED <<pipe, streamFrame>>

\* a Write after the read end was closed returns io.ErrClosedPipe
PipeWriteClosed ==
    /\ pipe.made
    /\ procs[Writer].pc = "write"
    /\ pipe.rClosed
    /\ procs' = [procs EXCEPT ![Writer].pc = "close", ![Writer].err = "closed pipe"]
    /\ UNCHANGED <<pipe, streamFrame>>

\* the deferred w.Close(): of the save handler, of the export goroutine
CloseWriter ==
    /\ pipe.made
    /\ procs[Writer].pc = "close"
    /\ pipe' = [pipe EXCEPT !.wClosed = TRUE]
    /\ procs' = [procs EXCEPT ![Writer].pc = "done"]
    /\ UNCHANGED streamFrame

\* the get handler's r.Close(); the load goroutine never closes its end
CloseReader ==
    /\ pipe.made
    /\ procs[Reader].pc = "close"
    /\ pipe' = [pipe EXCEPT !.rClosed = TRUE]
    /\ procs' = [procs EXCEPT ![Reader].pc = "done"]
    /\ UNCHANGED streamFrame

\* LoadImage fails and returns: the goroutine ends, its result is dropped
LoadImageFail ==
    /\ pipe.made
    /\ pipe.form = "Write"
    /\ procs.runtime.pc = "read"
    /\ procs' = [procs EXCEPT !.runtime.pc = "done", !.runtime.err = "runtime error"]
    /\ UNCHANGED <<pipe, streamFrame>>

\* ExportImages fails and returns: its result is dropped, w.Close() is next
ExportImagesFail ==
    /\ pipe.made
    /\ pipe.form = "Get"
    /\ procs.runtime.pc = "write"
    /\ procs' = [procs EXCEPT !.runtime.pc = "close", !.runtime.err = "runtime error"]
    /\ UNCHANGED <<pipe, streamFrame>>

\* reading the request body fails: the save handler's io.Copy returns
BodyFail ==
    /\ pipe.made
    /\ pipe.form = "Write"
    /\ procs.caller.pc = "write"
    /\ procs' = [procs EXCEPT !.caller.pc = "close", !.caller.err = "io failure"]
    /\ UNCHANGED <<pipe, streamFrame>>

\* writing a chunk to the response fails: the get handler's io.Copy returns
SinkFail ==
    /\ pipe.made
    /\ pipe.form = "Get"
    /\ procs.caller.pc = "read"
    /\ procs.caller.data # <<>>
    /\ procs' = [procs EXCEPT !.caller.pc = "close", !.caller.err = "io failure"]
    /\ UNCHANGED <<pipe, streamFrame>>

StreamNext ==
    \/ DockerDirectCall \/ StreamWrite \/ StreamGet
    \/ PipeTransfer \/ PipeReadEOF \/ PipeWriteClosed
    \/ CloseWriter \/ CloseReader
    \/ LoadImageFail \/ ExportImagesFail \/ BodyFail \/ SinkFail

SpecStream == StreamInit /\ [][StreamNext]_vars

\* both goroutines have finished
StreamOver == Pc("caller") = "done" /\ Pc("runtime") = "done"

(* C12: every Engine-Delegated operation, in the direct form and in the    *)
(* pipe-streaming form, reports a failure to its caller exactly when the   *)
(* runtime call it forwards to failed, and reports that error unmodified:  *)
(* a runtime failure never reaches the caller as a successful, complete    *)
(* transfer.                                                               *)
C12_ErrorPassThrough ==
    /\ last.op \in {"Write", "Get", "Delete"} => last.err = input
    /\ (StreamOver /\ last.err = "nil" /\ procs.caller.err = "nil")
           => procs.runtime.err = "nil"

\* scheduling: a goroutine that can take its next step takes it, and a
\* Read and a Write that meet do exchange the chunk; the failures of the
\* runtime, of the request body and of the response are never forced
SpecStreamFair ==
    /\ StreamInit
    /\ [][StreamNext]_vars
    /\ WF_vars(PipeTransfer)
    /\ WF_vars(PipeReadEOF)
    /\ WF_vars(PipeWriteClosed)
    /\ WF_vars(CloseWriter)
    /\ WF_vars(CloseReader)

\* a goroutine is inside a Read or a Write of the pipe
Blocked(p) == Pc(p) \in {"read", "write"}

\* a goroutine has returned: the runtime call is over and the deferred
\* close, where there is one, has run; the handler has closed its end
Finished(p) == Pc(p) = "done"

(* C17: in the pipe-streaming Write and Get, once one side has finished    *)
(* (the runtime call has returned, with or without error, or the caller    *)
(* has closed its end), the other side is eventually out of its Read or    *)
(* Write: neither the caller nor the runtime goroutine stays blocked       *)
(* forever.                                                                *)
C17_NoStreamingDeadlock ==
    /\ Finished("runtime") ~> ~Blocked("caller")
    /\ Finished("caller") ~> ~Blocked("runtime")

----------------------------------------------------------------------------
\* the position of an identifier in a sequence that holds it once
PositionOf(list, name) == CHOOSE i \in DOMAIN list : list[i] = name

(* C13: a Remove(id) with id present at position i of a sequence of length *)
(* n leaves a sequence of length n-1 that holds the former last element at *)
(* position i (nothing there when i was the last position) and every other *)
(* remaining element at the position it had before.                        *)
C13_SwapDeleteOrder ==
    [][(last'.op = "Remove" /\ last'.arg \in ToSet(nameList))
         => LET n == Len(nameList)
                i == PositionOf(nameList, last'.arg)
            IN  /\ Len(nameList') = n - 1
                /\ i < n => nameList'[i] = nameList[n]
                /\ \A j \in 1..(n - 1) : j # i => nameList'[j] = nameList[j]]_vars

\* a Remove of an identifier that was not the last one: the identifier
\* added just before the Remove, the last one then, now stands further up
C13_Witness ==
    /\ prev.op = "Add" /\ prev.err = "nil"
    /\ last.op = "Remove" /\ last.err = "nil" /\ last.arg # prev.arg
    /\ \E i \in DOMAIN nameList : nameList[i] = prev.arg /\ i < Len(nameList)

----------------------------------------------------------------------------
\* the identifiers of an index rebuilt by a fresh backend on the same root
Rebuilt(m) ==
    {ToSet(Names(NewFileImageStorage(m, order))) : order \in ScanOrders(ScanEntries(m))}

(* C14: at any point after any sequence of Write and Delete calls on a     *)
(* Filesystem backend, calls that failed partway and identifiers of any    *)
(* shape included, an index rebuilt from scratch by scanning the medium    *)
(* holds exactly the set of identifiers that the live backend's List()     *)
(* returns.                                                                *)
C14_RebuildEquivalence == Rebuilt(Medium) = {ToSet(ListNow.out)}

----------------------------------------------------------------------------
(* Two calls in progress at once on one FileImageStorage: each HTTP        *)
(* request runs its handler in a goroutine of its own, and neither the     *)
(* index nor the medium is guarded by a lock, so the system calls of Write *)
(* and Delete and the statements of Add and Remove interleave.             *)

\* identifiers the two concurrent calls are made with
RaceIds == {<<"a", Colon, "a">>, <<"a">>}

\* payloads of a concurrent Write
RacePayloads == {<<1>>, <<2, 1>>}

\* a call in progress: its position, the error it returns, whether the
\* file it has open is still the one linked at the path, and whether its
\* system calls on the medium were completed after the other call's
Goroutine(op, payload) ==
    [op |-> op,
     pc |-> IF op = "Write" THEN "mkdir" ELSE "remove",
     err |-> "nil",
     payload |-> payload,
     linked |-> FALSE,
     physDone |-> FALSE,
     physAfter |-> FALSE]

Other(k) == 3 - k

\* the two strings parseImageName makes of the identifier of the two calls
RaceImageName == parseImageName(input)[1]
RaceImageVersion == parseImageName(input)[2]
RaceIndexString == IndexString(RaceImageName, RaceImageVersion)
RaceFileString == FileString(RaceImageName, RaceImageVersion)

\* a write of the payload at offset 0 of the file, as the first Write on a
\* descriptor that os.Create returned
WriteAt0(content, payload) ==
    payload \o SubSeq(content, Len(payload) + 1, Len(content))

\* the backend the two calls find: an empty root, or the identifier
\* written by an earlier call
RaceStart(id, stored) ==
    IF stored
    THEN FisWrite(EmptyRoot, NewFileImageStorage(EmptyRoot, <<>>), id, <<1>>, NoFault)
    ELSE [m |-> EmptyRoot, inl |-> NewFileImageStorage(EmptyRoot, <<>>), err |-> "nil"]

RaceInit ==
    /\ \E id \in RaceIds, stored \in BOOLEAN :
          /\ input = id
          /\ dirs = RaceStart(id, stored).m.dirs
          /\ files = RaceStart(id, stored).m.files
          /\ nameList = RaceStart(id, stored).inl.nameList
          /\ nameMap = RaceStart(id, stored).inl.nameMap
    /\ \E p1 \in RacePayloads :
          \/ \E p2 \in RacePayloads :
                procs = <<Goroutine("Write", p1), Goroutine("Write", p2)>>
          \/ procs = <<Goroutine("Write", p1), Goroutine("Delete", <<>>)>>
    /\ blobs = [p \in {} |-> <<>>]
    /\ imgs = <<>>
    /\ steps = 0
    /\ prev = NoCall
    /\ last = NoCall
    /\ sessions = 0
    /\ nameCap = 0
    /\ snap = NoSnap
    /\ pipe = NoPipe

raceFrame == <<blobs, imgs, input, steps, prev, last, sessions, nameCap, snap, pipe>>

\* the call's system calls on the medium are over
Completed(k, p) ==
    [p EXCEPT !.physDone = TRUE, !.physAfter = procs[Other(k)].physDone]

\* Write: os.MkdirAll(abs_dir, 0777)
WriteMkdir ==
    \E k \in {1, 2} :
        /\ procs[k].pc = "mkdir"
        /\ LET mk == MkdirAll(Medium, DirString(RaceImageName), FALSE)
           IN  /\ dirs' = mk.m.dirs
               /\ procs' = [procs EXCEPT ![k] =
                     IF mk.err = "nil" THEN [@ EXCEPT !.pc = "create"]
                     ELSE Completed(k, [@ EXCEPT !.pc = "done", !.err = mk.err])]
        /\ UNCHANGED <<files, nameList, nameMap, raceFrame>>

\* Write: os.Create of the tag file
WriteCreate ==
    \E k \in {1, 2} :
        /\ procs[k].pc = "create"
        /\ LET cr == OsCreate(Medium, RaceFileString, FALSE)
           IN  /\ files' = cr.m.files
               /\ procs' = [procs EXCEPT ![k] =
                     IF cr.err = "nil" THEN [@ EXCEPT !.pc = "copy", !.linked = TRUE]
                     ELSE Completed(k, [@ EXCEPT !.pc = "done", !.err = cr.err])]
        /\ UNCHANGED <<dirs, nameList, nameMap, raceFrame>>

\* Write: io.Copy(f, reader); bytes written to a file that was unlinked
\* since its creation reach no path of the medium
WriteCopy ==
    \E k \in {1, 2} :
        /\ procs[k].pc = "copy"
        /\ files' = IF procs[k].linked
                    THEN [files EXCEPT ![SplitPath(RaceFileString)] =
                             WriteAt0(@, procs[k].payload)]
                    ELSE files
        /\ procs' = [procs EXCEPT ![k] = Completed(k, [@ EXCEPT !.pc = "test"])]
        /\ UNCHANGED <<dirs, nameList, nameMap, raceFrame>>

\* Add: if _, ok := inl.nameMap[name]; ok { return error }, which Write drops
AddTest ==
    \E k \in {1, 2} :
        /\ procs[k].pc = "test"
        /\ procs' = [procs EXCEPT ![k].pc =
              IF RaceIndexString \in DOMAIN nameMap THEN "done" ELSE "insert"]
        /\ UNCHANGED <<dirs, files, nameList, nameMap, raceFrame>>

\* Add: inl.nameMap[name] = name
AddInsert ==
    \E k \in {1, 2} :
        /\ procs[k].pc = "insert"
        /\ nameMap' = [n \in DOMAIN nameMap \cup {RaceIndexString} |-> n]
        /\ procs' = [procs EXCEPT ![k].pc = "append"]
        /\ UNCHANGED <<dirs, files, nameList, raceFrame>>

\* Add: inl.nameList = append(inl.nameList, name)
AddAppend ==
    \E k \in {1, 2} :
        /\ procs[k].pc = "append"
        /\ nameList' = Append(nameList, RaceIndexString)
        /\ procs' = [procs EXCEPT ![k].pc = "done"]
        /\ UNCHANGED <<dirs, files, nameMap, raceFrame>>

\* Delete: os.Remove of the tag file; a file another call has open is
\* unlinked under it
DeleteRemove ==
    \E k \in {1, 2} :
        /\ procs[k].pc = "remove"
        /\ LET rm == OsRemove(Medium, RaceFileString, FALSE)
           IN  /\ dirs' = rm.m.dirs
               /\ files' = rm.m.files
               /\ procs' = [procs EXCEPT
                     ![k] = Completed(k, IF rm.err = "nil"
                                         THEN [@ EXCEPT !.pc = "rtest"]
                                         ELSE [@ EXCEPT !.pc = "done", !.err = rm.err]),
                     ![Other(k)].linked = IF rm.err = "nil" THEN FALSE ELSE @]
        /\ UNCHANGED <<nameList, nameMap, raceFrame>>

\* Remove: if _, ok := inl.nameMap[name]; ok, else an error Delete drops
RemoveTest ==
    \E k \in {1, 2} :
        /\ procs[k].pc = "rtest"
        /\ procs' = [procs EXCEPT ![k].pc =
              IF RaceIndexString \in DOMAIN nameMap THEN "rdelete" ELSE "done"]
        /\ UNCHANGED <<dirs, files, nameList, nameMap, raceFrame>>

\* Remove: delete(inl.nameMap, name)
RemoveDelete ==
    \E k \in {1, 2} :
        /\ procs[k].pc = "rdelete"
        /\ nameMap' = MapDelete(nameMap, RaceIndexString)
        /\ procs' = [procs EXCEPT ![k].pc = "rscan"]
        /\ UNCHANGED <<dirs, files, nameList, raceFrame>>

\* Remove: the loop that finds the name, swaps it to the end and reslices
RemoveScan ==
    \E k \in {1, 2} :
        /\ procs[k].pc = "rscan"
        /\ LET hits == {i \in DOMAIN nameList : nameList[i] = RaceIndexString}
           IN  nameList' = IF hits = {} THEN nameList
                           ELSE SwapTruncate(nameList,
                                    CHOOSE h \in hits : \A g \in hits : h <= g)
        /\ procs' = [procs EXCEPT ![k].pc = "done"]
        /\ UNCHANGED <<dirs, files, nameMap, raceFrame>>

\* positions at which a goroutine is about to read, to write the map
MapAccess == {"test", "insert", "rtest", "rdelete"}
MapWrite == {"insert", "rdelete"}

\* the map is not safe for concurrent use: when a write of it overlaps
\* another access the runtime may stop the process with a fatal error
RaceFatal ==
    /\ \E k \in {1, 2} :
          procs[k].pc \in MapWrite /\ procs[Other(k)].pc \in MapAccess
    /\ procs' = [k \in {1, 2} |-> [procs[k] EXCEPT !.pc = "fatal"]]
    /\ UNCHANGED <<dirs, files, nameList, nameMap, raceFrame>>

RaceNext ==
    \/ WriteMkdir \/ WriteCreate \/ WriteCopy
    \/ AddTest \/ AddInsert \/ AddAppend
    \/ DeleteRemove \/ RemoveTest \/ RemoveDelete \/ RemoveScan
    \/ RaceFatal

SpecRace == RaceInit /\ [][RaceNext]_vars

\* both calls have returned
BothReturned == procs[1].pc = "done" /\ procs[2].pc = "done"

(* C15: for every interleaving of two concurrent Write calls with the same *)
(* identifier on one Filesystem backend, the membership test, the map      *)
(* insert and the append of Add being separate steps, once both calls have *)
(* returned successfully List() holds the identifier exactly once and the  *)
(* set and the sequence of the index hold the same identifiers.            *)
C15_ConcurrentWrites ==
    (/\ procs[1].op = "Write" /\ procs[2].op = "Write"
     /\ BothReturned
     /\ procs[1].err = "nil" /\ procs[2].err = "nil")
        => /\ Occurrences(FisList(Index).out, RaceIndexString) = 1
           /\ ToSet(nameList) = DOMAIN nameMap

\* the tag file of the identifier is on the medium
TagFileExists == Kind(Medium, SplitPath(RaceFileString)) = "file"

(* C16: for every interleaving of a Write and a concurrent Delete of the   *)
(* same identifier on one Filesystem backend, once both calls have         *)
(* returned, the tag file exists exactly when the system calls of the      *)
(* Write were completed after those of the Delete, and List() holds the    *)
(* identifier if and only if the tag file exists.                          *)
C16_WriteDeleteRace ==
    (/\ procs[1].op = "Write" /\ procs[2].op = "Delete"
     /\ BothReturned)
        => /\ TagFileExists <=> procs[1].physAfter
           /\ RaceIndexString \in ToSet(FisList(Index).out) <=> TagFileExists

----------------------------------------------------------------------------
\* every identifier of the index names its tag: it holds a ':' and the
\* part after the first ':' is not empty
ExplicitForm ==
    \A i \in DOMAIN nameList :
        /\ Colon \in ToSet(nameList[i])
        /\ parseImageName(nameList[i])[2] # <<>>

\* two calls in a row, both successful, on two spellings of one entry
SameEntry(op1, op2) ==
    /\ prev.op = op1 /\ prev.err = "nil"
    /\ last.op = op2 /\ last.err = "nil"
    /\ Canonical(prev.arg) = Canonical(last.arg)

----------------------------------------------------------------------------
(* The slice behind the Name Index. nameList is a slice: a window of       *)
(* length len on an array of cap elements. Names() returns that slice, so  *)
(* the caller's copy and the index look at the same array until an append  *)
(* beyond cap moves the index to a new one. Remove swaps in the array and  *)
(* shortens the window; an append within cap writes into the array.        *)

MaxSnapNames == 3    \* identifiers offered to the index while a slice is held

SnapIds == {<<"r", Colon, Digits[i]>> : i \in 1..MaxSnapNames}

\* the capacity append gives the new array when the old one is full (the
\* gc runtime doubles small slices; make([]string, 0) has capacity 0)
GrowCap(cap) == IF cap = 0 THEN 1 ELSE 2 * cap

\* the slice Names() returns: what it held when returned, what its holder
\* reads in it now, and whether its array is still the array of the index
NamesSlice(inl) ==
    [taken |-> TRUE, orig |-> inl.nameList, arr |-> inl.nameList, shared |-> TRUE]

\* the assignment array[j] = v as the holder of the slice sees it
Seen(s, j, v) ==
    IF s.taken /\ s.shared /\ j <= Len(s.arr)
    THEN [s EXCEPT !.arr[j] = v]
    ELSE s

\* the slice does not follow the index to a new array
Detached(s) == IF s.taken THEN [s EXCEPT !.shared = FALSE] ELSE s

SnapInit ==
    /\ nameList = NewImageNameList.nameList
    /\ nameMap = NewImageNameList.nameMap
    /\ nameCap = 0
    /\ snap = NoSnap
    /\ dirs = {}
    /\ files = [p \in {} |-> <<>>]
    /\ blobs = [p \in {} |-> <<>>]
    /\ imgs = <<>>
    /\ input = <<>>
    /\ steps = 0
    /\ prev = NoCall
    /\ last = NoCall
    /\ sessions = 0
    /\ procs = NoProcs
    /\ pipe = NoPipe

snapFrame == <<dirs, files, blobs, imgs, input, steps, prev, sessions, procs, pipe>>

\* Add: the append writes array[len] in place when len < cap, and moves
\* the index to a new array otherwise
SnapAdd ==
    \E name \in SnapIds :
        LET r == Add(Index, name)
            n == Len(nameList)
        IN  /\ nameList' = r.inl.nameList
            /\ nameMap' = r.inl.nameMap
            /\ nameCap' = IF r.err = "nil" /\ n = nameCap THEN GrowCap(nameCap)
                          ELSE nameCap
            /\ snap' = IF r.err # "nil" THEN snap
                       ELSE IF n < nameCap THEN Seen(snap, n + 1, name)
                       ELSE Detached(snap)
            /\ last' = Call("Add", name, <<>>, r.err, <<>>)
            /\ UNCHANGED snapFrame

\* Remove: nameList[i], nameList[n-1] = nameList[n-1], nameList[i] writes
\* both elements of the array, then the window is shortened
SnapRemove ==
    \E name \in SnapIds :
        LET r == Remove(Index, name)
            n == Len(nameList)
        IN  /\ nameList' = r.inl.nameList
            /\ nameMap' = r.inl.nameMap
            /\ snap' = IF r.err # "nil" THEN snap
                       ELSE LET i == PositionOf(nameList, name)
                            IN  Seen(Seen(snap, i, nameList[n]), n, nameList[i])
            /\ last' = Call("Remove", name, <<>>, r.err, <<>>)
            /\ UNCHANGED <<nameCap, snapFrame>>

\* Names: return inl.nameList
SnapNames ==
    /\ snap' = NamesSlice(Index)
    /\ last' = Call("Names", <<>>, <<>>, "nil", Names(Index))
    /\ UNCHANGED <<nameList, nameMap, nameCap, snapFrame>>

SnapNext == SnapAdd \/ SnapRemove \/ SnapNames

SpecSnap == SnapInit /\ [][SnapNext]_vars

(* C19: a sequence returned by Names(), and so by List() of the Filesystem *)
(* and Document-Store backends, keeps the contents and the order it had    *)
(* when it was returned: no later Add or Remove on the index changes an    *)
(* element of it.                                                          *)
C19_EnumerationSnapshot == snap.taken => snap.arr = snap.orig

====
